---------------------------- MODULE Spec2Model ----------------------------
(***************************************************************************)
(* Model of bids_hub: the validation result model                          *)
(* (bids_hub/validation/base.py), file discovery (bids_hub/core/utils.py)  *)
(* and the generic driver validate_dataset that assembles a                *)
(* ValidationResult from discovery and check primitives.                   *)
(*                                                                         *)
(* Three specifications share the variables:                               *)
(*   Spec          ValidationResult objects: construction, add, summary    *)
(*   SpecFind      find_single_nifti / find_all_niftis over a file tree    *)
(*   SpecValidate  one run of validate_dataset over a tree and a config    *)
(***************************************************************************)
EXTENDS Integers, Sequences, FiniteSets, TLC

VARIABLES
    heap,       \* the list objects: list id -> sequence of ValidationCheck
    checksRef,  \* ValidationResult id -> id of the list its checks field holds
    call,       \* the most recent completed call: operation and arguments
    ret,        \* what that call returned
    rootKind,   \* what search_dir / the dataset root is on disk
    fs,         \* the tree below it: relative path -> kind of entry
    config,     \* validate_dataset: the DatasetValidationConfig of the run
    pc,         \* validate_dataset: position of the run
    found       \* validate_dataset: the files discovered so far

vars == <<heap, checksRef, call, ret, rootKind, fs, config, pc, found>>

\* Python's None as a returned value or an absent argument: the empty tuple,
\* which no path, report or check equals.
None == <<>>

\* The checks field of a ValidationResult that is not constructed yet.
NoRef == "unset"

(***************************************************************************)
(* Bounds                                                                  *)
(***************************************************************************)
MaxChecks == 2

(***************************************************************************)
(* Generic sequence helpers                                                *)
(***************************************************************************)
Range(s) == {s[i] : i \in 1..Len(s)}

(***************************************************************************)
(* ValidationCheck and ValidationResult                                    *)
(***************************************************************************)
ResultIds == {"r1", "r2"}
ListIds   == {"l1", "l2"}

\* dataclass ValidationCheck; details defaults to "".
ValidationCheck(name, expected, actual, passed, details) ==
    [name |-> name, expected |-> expected, actual |-> actual,
     passed |-> passed, details |-> details]

\* The checks handed to add in Spec.
CheckInputs ==
    {ValidationCheck("n", "e", "a", p, d) : p \in BOOLEAN, d \in {"", "d"}}

\* field(default_factory=list): every construction without a checks argument
\* calls list(), which allocates a list object no other reference holds.
SharedDefaultList == "l1"
default_factory ==
    CHOOSE l \in ListIds : \A r \in ResultIds : checksRef[r] # l

\* self.checks of an instance.
checks(r) == heap[checksRef[r]]

\* all(c.passed for c in self.checks)
RECURSIVE AllTrue(_)
AllTrue(cs) == IF cs = <<>> THEN TRUE
               ELSE IF Head(cs).passed THEN AllTrue(Tail(cs)) ELSE FALSE

AnyPassed(cs) == \E i \in 1..Len(cs) : cs[i].passed
all_passed(cs) == AllTrue(cs)

\* sum(1 for c in self.checks if c.passed)
RECURSIVE passed_count(_)
passed_count(cs) ==
    IF cs = <<>> THEN 0
    ELSE (IF Head(cs).passed THEN 1 ELSE 0) + passed_count(Tail(cs))

\* sum(1 for c in self.checks if not c.passed)
RECURSIVE CountFailedWithDetails(_)
CountFailedWithDetails(cs) ==
    IF cs = <<>> THEN 0
    ELSE (IF ~Head(cs).passed /\ Head(cs).details # "" THEN 1 ELSE 0)
         + CountFailedWithDetails(Tail(cs))

RECURSIVE failed_count(_)
failed_count(cs) ==
    IF cs = <<>> THEN 0
    ELSE (IF ~Head(cs).passed THEN 1 ELSE 0) + failed_count(Tail(cs))

\* self.checks.append(check): the list after add.
PrependCheck(cs, check) == <<check>> \o cs
AppendIfAllPassed(cs, check) == IF AllTrue(cs) THEN Append(cs, check) ELSE cs
append(cs, check) == Append(cs, check)

(***************************************************************************)
(* summary(): the report is a sequence of tokens; a line is the tokens     *)
(* between two "\n" tokens.  The pass / fail glyphs of the source are      *)
(* left out of the status tokens.                                          *)
(***************************************************************************)
Digits == <<"0", "1", "2", "3", "4", "5", "6", "7", "8", "9">>

\* f"{n}" for a non-negative int: its decimal digits.
RECURSIVE IntStr(_)
IntStr(n) == IF n < 10 THEN <<Digits[n + 1]>>
             ELSE IntStr(n \div 10) \o <<Digits[(n % 10) + 1]>>

Rule == <<"============================================================">>

\* The lines appended for one check inside the for loop.
CheckLines(check) ==
    << <<(IF check.passed THEN "PASS" ELSE "FAIL"), " ", check.name>>,
       <<"       Expected: ", check.expected>>,
       <<"       Actual:   ", check.actual>> >>
    \o (IF check.details # ""
        THEN << <<"       Details:  ", check.details>> >>
        ELSE <<>>)

RECURSIVE BodyLines(_)
BodyLines(cs) ==
    IF cs = <<>> THEN <<>> ELSE CheckLines(Head(cs)) \o BodyLines(Tail(cs))

SuccessFooter == <<"All validations passed! Data is ready for HF push.">>

FailureFooter(cs) ==
    IntStr(failed_count(cs)) \o <<"/">> \o IntStr(Len(cs))
    \o <<" checks failed. ", "Check download or wait for completion.">>

FooterByPassedCount(cs) ==
    IF all_passed(cs) THEN SuccessFooter
    ELSE IntStr(passed_count(cs)) \o <<"/">> \o IntStr(Len(cs))
         \o <<" checks failed. ", "Check download or wait for completion.">>

FooterLine(cs) == IF all_passed(cs) THEN SuccessFooter ELSE FailureFooter(cs)

\* lines, before the join.
SummaryLines(root, cs) ==
    << <<"Validation Results for: ", root>>, Rule >>
    \o BodyLines(cs)
    \o << Rule, FooterLine(cs) >>

\* "\n".join(lines)
RECURSIVE Join(_)
Join(lines) ==
    IF lines = <<>> THEN <<>>
    ELSE IF Len(lines) = 1 THEN Head(lines)
    ELSE Head(lines) \o <<"\n">> \o Join(Tail(lines))

bids_root(r) == r

summary(r) == Join(SummaryLines(bids_root(r), checks(r)))

(***************************************************************************)
(* The file tree.  A name is its sequence of code points, so that names    *)
(* compare as Python strings do; a path is a sequence of names, absolute   *)
(* when it starts with the root "/".                                       *)
(***************************************************************************)
NameSet == {<<97>>, <<97, 98>>, <<98>>}          \* "a", "ab", "b"
Patterns == {<<42>>, <<97, 42>>, <<42, 98>>, <<98>>}   \* "*", "a*", "*b", "b"

Slash      == <<47>>                             \* "/"
Cwd        == <<Slash, <<119>>>>                 \* "/w", the working directory
SearchDir  == << <<100>> >>                      \* "d", relative to Cwd
LinkTarget == <<Slash, <<111>>>>                 \* "/o", where every symlink points

RelPaths == {<<n>> : n \in NameSet} \cup {<<n, m>> : n \in NameSet, m \in NameSet}

\* What one top-level name can be: absent, one of topKinds other than a
\* directory, or a directory (when topKinds has "dir") whose entries, named
\* from childNames, are absent or one of childKinds.
NoKids == [m \in NameSet |-> "absent"]

Slots(topKinds, childNames, childKinds) ==
    {[kind |-> k, kids |-> NoKids] : k \in {"absent"} \cup (topKinds \ {"dir"})}
    \cup {[kind |-> "dir", kids |-> ks] :
            ks \in {f \in [NameSet -> {"absent"} \cup childKinds] :
                       topKinds \cap {"dir"} # {}
                       /\ \A m \in NameSet \ childNames : f[m] = "absent"}}

TreeOf(slot) ==
    [p \in RelPaths |->
        IF Len(p) = 1 THEN slot[p[1]].kind ELSE slot[p[1]].kids[p[2]]]

Trees(topNames, topKinds, childNames, childKinds) ==
    {TreeOf(slot) :
        slot \in {f \in [NameSet -> Slots(topKinds, childNames, childKinds)] :
                     \A n \in NameSet \ topNames : f[n].kind = "absent"}}

EmptyTree == [p \in RelPaths |-> "absent"]

Exists(p) == fs[p] # "absent"

\* pathlib's p.name: the last component.
PathName(p) == p[Len(p)]

\* str < str in Python: lexicographic on code points.
RECURSIVE StrLess(_, _)
StrLess(a, b) ==
    IF a = <<>> THEN b # <<>>
    ELSE IF b = <<>> THEN FALSE
    ELSE \/ Head(a) < Head(b)
         \/ Head(a) = Head(b) /\ StrLess(Tail(a), Tail(b))

StrLeq(a, b) == a = b \/ StrLess(a, b)

\* fnmatch of one path component: 42 is "*", anything else is literal.
RECURSIVE Match(_, _)
Match(pat, name) ==
    IF pat = <<>> THEN name = <<>>
    ELSE IF Head(pat) = 42
         THEN Match(Tail(pat), name) \/ (name # <<>> /\ Match(pat, Tail(name)))
         ELSE name # <<>> /\ Head(name) = Head(pat) /\ Match(Tail(pat), Tail(name))

\* os.scandir lists a directory in an order the file system picks: a listing
\* order is a permutation of the names.
ScanOrders ==
    {s \in [1..Cardinality(NameSet) -> NameSet] : Range(s) = NameSet}

\* What the pattern selects in directory d, in listing order.
RECURSIVE SelectIn(_, _, _)
SelectIn(d, pattern, order) ==
    IF order = <<>> THEN <<>>
    ELSE (IF Exists(d \o <<Head(order)>>) /\ Match(pattern, Head(order))
          THEN <<d \o <<Head(order)>>>> ELSE <<>>)
         \o SelectIn(d, pattern, Tail(order))

\* The directories below search_dir, walked in listing order (symlinks are
\* not followed).
RECURSIVE SubDirs(_)
SubDirs(order) ==
    IF order = <<>> THEN <<>>
    ELSE (IF fs[<<Head(order)>>] = "dir" THEN <<<<Head(order)>>>> ELSE <<>>)
         \o SubDirs(Tail(order))

RECURSIVE SelectInEach(_, _, _)
SelectInEach(dirs, pattern, order) ==
    IF dirs = <<>> THEN <<>>
    ELSE SelectIn(Head(dirs), pattern, order)
         \o SelectInEach(Tail(dirs), pattern, order)

\* search_dir.rglob(pattern): search_dir first, then each directory below it;
\* the paths are relative to search_dir here and prefixed by it in resolve.
rglob(pattern, order) ==
    SelectIn(<<>>, pattern, order) \o SelectInEach(SubDirs(order), pattern, order)

\* sorted(..., key=lambda p: p.name) and list.sort(key=...): stable.
RECURSIVE InsertByName(_, _)
InsertByName(x, sorted) ==
    IF sorted = <<>> THEN <<x>>
    ELSE IF StrLeq(PathName(Head(sorted)), PathName(x))
         THEN <<Head(sorted)>> \o InsertByName(x, Tail(sorted))
         ELSE <<x>> \o sorted

RECURSIVE SortByName(_, _)
SortByName(rest, done) ==
    IF rest = <<>> THEN done
    ELSE SortByName(Tail(rest), InsertByName(Head(rest), done))

Unsorted(ps) == ps
sort_by_name(ps) == SortByName(ps, <<>>)

\* p.resolve(): absolute, symlinks followed.  str() of the result is the
\* sequence of its components.
resolve(p) == IF fs[p] = "link" THEN LinkTarget ELSE Cwd \o SearchDir \o p

RECURSIVE ResolveAll(_)
ResolveAll(ps) ==
    IF ps = <<>> THEN <<>> ELSE <<resolve(Head(ps))>> \o ResolveAll(Tail(ps))

\* search_dir.is_dir()
is_dir == rootKind = "dir"

\* rglob rejects a pattern that starts with "/" (NotImplementedError:
\* non-relative patterns are unsupported) before it looks at the disk; the
\* early return of a find function comes before its rglob call.
rglob_raises(pattern) == pattern # <<>> /\ Head(pattern) = 47

RaisesWithoutDirCheck(pattern) == rglob_raises(pattern)
find_single_raises(pattern) == is_dir /\ rglob_raises(pattern)
find_all_raises(pattern) == is_dir /\ rglob_raises(pattern)

FirstOfMatches(pattern, order) ==
    IF ~is_dir THEN None
    ELSE LET matches == sort_by_name(rglob(pattern, order))
         IN  IF Len(matches) = 0 THEN None ELSE resolve(matches[1])

find_single_nifti(pattern, order) ==
    IF ~is_dir THEN None
    ELSE LET matches == sort_by_name(rglob(pattern, order))
         IN  IF Len(matches) # 1 THEN None ELSE resolve(matches[1])

find_all_niftis(pattern, order) ==
    IF ~is_dir THEN <<>>
    ELSE ResolveAll(sort_by_name(rglob(pattern, order)))

(***************************************************************************)
(* Check primitives and the driver validate_dataset.  base.py as shipped   *)
(* here ends with ValidationResult; these follow the repository's          *)
(* specification (section 4.2).                                            *)
(***************************************************************************)
MaxRequired == 2
ExpectedCounts == {1, 2}
ConfigPatterns == {<<42>>, <<98>>, <<47>>}        \* "*", "b", and the invalid "/"
ArchiveStates == {"none", "match", "mismatch", "unreadable"}

RequiredEntries ==
    [name : {"req"}, pattern : ConfigPatterns, expected_count : ExpectedCounts]

SeqsUpTo(S, n) == UNION {[1..k -> S] : k \in 0..n}

\* DatasetValidationConfig: the required-file entries, and the archive
\* checksum ("none" when the config carries none) with what the archive on
\* disk will turn out to be.
Configs == [required : SeqsUpTo(RequiredEntries, MaxRequired), archive : ArchiveStates]

NoConfig == [required |-> <<>>, archive |-> "none"]

\* passed iff len(actual_items) == expected_count; actual reports the count.
check_count(name, expected_count, actual_items, details) ==
    ValidationCheck(<<"check_count", name>>, IntStr(expected_count),
                    IntStr(Len(actual_items)),
                    Len(actual_items) = expected_count, details)

\* The entry of the tree an absolute path returned by discovery denotes.
RelOf(path) == SubSeq(path, Len(Cwd) + Len(SearchDir) + 1, Len(path))
IsZeroByte(path) == fs[RelOf(path)] = "empty"

\* passed iff no path has size zero; details lists every offender.
check_zero_byte_files(paths) ==
    LET offenders == SelectSeq(paths, IsZeroByte)
    IN  ValidationCheck(<<"check_zero_byte_files">>, <<"0">>,
                        IntStr(Len(offenders)), offenders = <<>>, offenders)

\* passed iff the streamed digest equals the expected one; an unreadable
\* file is a failed check, not a fault.
verify_md5(archive) ==
    ValidationCheck(<<"verify_md5">>, <<"digest">>,
                    (IF archive = "match" THEN <<"digest">>
                     ELSE IF archive = "mismatch" THEN <<"other">>
                     ELSE <<"read error">>),
                    archive = "match", "")

(***************************************************************************)
(* Initial states                                                          *)
(***************************************************************************)
NoCall == [op |-> "none", self |-> "none", arg |-> None, outcome |-> "returned"]

Returned(op, self, arg) ==
    [op |-> op, self |-> self, arg |-> arg, outcome |-> "returned"]

Raised(op, self, arg) ==
    [op |-> op, self |-> self, arg |-> arg, outcome |-> "raised"]

InitObjects ==
    /\ heap = [l \in ListIds |-> <<>>]
    /\ checksRef = [r \in ResultIds |-> NoRef]
    /\ call = NoCall
    /\ ret = None

InitNoRun ==
    /\ config = NoConfig
    /\ pc = [at |-> "idle", i |-> 0]
    /\ found = <<>>

Init ==
    /\ InitObjects
    /\ InitNoRun
    /\ rootKind = "missing"
    /\ fs = EmptyTree

FindTrees == Trees(NameSet, {"file", "link", "dir"}, {<<97>>, <<98>>}, {"file"})

InitFind ==
    /\ InitObjects
    /\ InitNoRun
    /\ rootKind \in {"missing", "file", "dir"}
    /\ fs \in (IF rootKind = "dir" THEN FindTrees ELSE {EmptyTree})

ValidateTrees ==
    Trees({<<97>>, <<98>>}, {"file", "empty", "dir"}, {<<98>>}, {"file", "empty"})

InitValidate ==
    /\ InitObjects
    /\ config \in Configs
    /\ pc = [at |-> "idle", i |-> 0]
    /\ found = <<>>
    /\ rootKind \in {"missing", "dir"}
    /\ fs \in (IF rootKind = "dir" THEN ValidateTrees ELSE {EmptyTree})

(***************************************************************************)
(* ValidationResult operations                                             *)
(***************************************************************************)
objVars == <<heap, checksRef>>
diskVars == <<rootKind, fs>>
runVars == <<config, pc, found>>

\* ValidationResult(bids_root): checks comes from default_factory.
Construct(r) ==
    /\ checksRef[r] = NoRef
    /\ checksRef' = [checksRef EXCEPT ![r] = default_factory]
    /\ call' = Returned("ValidationResult", r, None)
    /\ ret' = None
    /\ UNCHANGED <<heap, diskVars, runVars>>

\* r.add(check)
add(r, check) ==
    /\ checksRef[r] # NoRef
    /\ Len(checks(r)) < MaxChecks
    /\ heap' = [heap EXCEPT ![checksRef[r]] = append(@, check)]
    /\ call' = Returned("add", r, check)
    /\ ret' = None
    /\ UNCHANGED <<checksRef, diskVars, runVars>>

\* r.summary()
Summary(r) ==
    /\ checksRef[r] # NoRef
    /\ call' = Returned("summary", r, None)
    /\ ret' = summary(r)
    /\ UNCHANGED <<objVars, diskVars, runVars>>

Next ==
    \/ \E r \in ResultIds : Construct(r)
    \/ \E r \in ResultIds, check \in CheckInputs : add(r, check)
    \/ \E r \in ResultIds : Summary(r)

Spec == Init /\ [][Next]_vars

(***************************************************************************)
(* Discovery calls                                                         *)
(***************************************************************************)
FindSingle(pattern) ==
    /\ \E order \in ScanOrders :
          IF find_single_raises(pattern)
          THEN call' = Raised("find_single_nifti", "none", pattern) /\ ret' = None
          ELSE /\ call' = Returned("find_single_nifti", "none", pattern)
               /\ ret' = find_single_nifti(pattern, order)
    /\ UNCHANGED <<objVars, diskVars, runVars>>

FindAll(pattern) ==
    /\ \E order \in ScanOrders :
          IF find_all_raises(pattern)
          THEN call' = Raised("find_all_niftis", "none", pattern) /\ ret' = None
          ELSE /\ call' = Returned("find_all_niftis", "none", pattern)
               /\ ret' = find_all_niftis(pattern, order)
    /\ UNCHANGED <<objVars, diskVars, runVars>>

FindPatterns == Patterns \cup {<<47>>}

NextFind ==
    \/ \E pattern \in FindPatterns : FindSingle(pattern)
    \/ \E pattern \in FindPatterns : FindAll(pattern)

SpecFind == InitFind /\ [][NextFind]_vars

(***************************************************************************)
(* validate_dataset(root, config), one step per check                      *)
(***************************************************************************)
Run == "r1"

\* The paths of items that found does not hold yet, in order.
RECURSIVE AddNew(_, _)
AddNew(seen, items) ==
    IF items = <<>> THEN seen
    ELSE AddNew((IF Head(items) \in Range(seen) THEN seen
                 ELSE Append(seen, Head(items))), Tail(items))

\* result = ValidationResult(root)
Begin ==
    /\ pc.at = "idle"
    /\ checksRef[Run] = NoRef
    /\ checksRef' = [checksRef EXCEPT ![Run] = default_factory]
    /\ pc' = [at |-> "count", i |-> 1]
    /\ UNCHANGED <<heap, call, ret, diskVars, config, found>>

\* One required-file entry: discover, then check_count.  A fault of the
\* discovery (an invalid pattern) propagates out of validate_dataset.
CountStep ==
    /\ pc.at = "count"
    /\ pc.i <= Len(config.required)
    /\ LET entry == config.required[pc.i]
       IN  IF find_all_raises(entry.pattern)
           THEN /\ pc' = [at |-> "fault", i |-> pc.i]
                /\ call' = Raised("validate_dataset", Run, None)
                /\ UNCHANGED <<heap, found>>
           ELSE \E order \in ScanOrders :
                   LET items == find_all_niftis(entry.pattern, order)
                   IN  /\ heap' = [heap EXCEPT ![checksRef[Run]] =
                                      append(@, check_count(entry.name,
                                                 entry.expected_count, items, ""))]
                       /\ found' = AddNew(found, items)
                       /\ pc' = [at |-> "count", i |-> pc.i + 1]
                       /\ UNCHANGED call
    /\ UNCHANGED <<checksRef, ret, diskVars, config>>

\* check_zero_byte_files over everything discovered.
ZeroByteStep ==
    /\ pc.at = "count"
    /\ pc.i > Len(config.required)
    /\ heap' = [heap EXCEPT ![checksRef[Run]] =
                   append(@, check_zero_byte_files(found))]
    /\ pc' = [at |-> "md5", i |-> pc.i]
    /\ UNCHANGED <<checksRef, call, ret, diskVars, config, found>>

\* verify_md5 when the config carries an archive checksum; then return result.
Md5Step ==
    /\ pc.at = "md5"
    /\ heap' = [heap EXCEPT ![checksRef[Run]] =
                   IF config.archive = "none" THEN @
                   ELSE append(@, verify_md5(config.archive))]
    /\ pc' = [at |-> "done", i |-> pc.i]
    /\ call' = Returned("validate_dataset", Run, None)
    /\ ret' = heap'[checksRef[Run]]
    /\ UNCHANGED <<checksRef, diskVars, config, found>>

NextValidate ==
    \/ Begin
    \/ CountStep
    \/ ZeroByteStep
    \/ Md5Step

SpecValidate == InitValidate /\ [][NextValidate]_vars

(***************************************************************************)
(* Properties of ValidationResult (Spec)                                   *)
(***************************************************************************)
Constructed == {r \in ResultIds : checksRef[r] # NoRef}

FailedAt(cs) == {i \in 1..Len(cs) : ~cs[i].passed}

\* C1: for every ValidationResult reached by construction and any sequence
\* of add calls, passed_count + failed_count equals len(checks).
C1_CountsPartitionChecks ==
    \A r \in Constructed :
        passed_count(checks(r)) + failed_count(checks(r)) = Len(checks(r))

C1_Witness ==
    /\ call.op = "add"
    /\ Len(checks(call.self)) = 2
    /\ FailedAt(checks(call.self)) = {1}

\* C2: all_passed is true iff every check has passed = true, which is the
\* same as failed_count = 0; the empty result included.
C2_AllPassedIffNoFailure ==
    \A r \in Constructed :
        /\ all_passed(checks(r)) <=> (\A i \in 1..Len(checks(r)) : checks(r)[i].passed)
        /\ all_passed(checks(r)) <=> (failed_count(checks(r)) = 0)

C2_Witness ==
    /\ Constructed = ResultIds
    /\ checks("r1") = <<>> /\ all_passed(checks("r1"))
    /\ Len(checks("r2")) = 2 /\ FailedAt(checks("r2")) = {2}
    /\ ~all_passed(checks("r2"))

\* The lines of a report: the token runs between "\n" tokens.
RECURSIVE SplitLines(_, _)
SplitLines(tokens, line) ==
    IF tokens = <<>> THEN <<line>>
    ELSE IF Head(tokens) = "\n" THEN <<line>> \o SplitLines(Tail(tokens), <<>>)
    ELSE SplitLines(Tail(tokens), Append(line, Head(tokens)))

ReportLines(report) == SplitLines(report, <<>>)

\* lines is one block per check of cs, in the order of cs: status and name,
\* Expected, Actual, and a Details line exactly when details is non-empty.
RECURSIVE BlocksInOrder(_, _)
BlocksInOrder(lines, cs) ==
    IF cs = <<>> THEN lines = <<>>
    ELSE LET c == Head(cs)
             n == IF c.details # "" THEN 4 ELSE 3
         IN  /\ Len(lines) >= n
             /\ lines[1] = <<(IF c.passed THEN "PASS" ELSE "FAIL"), " ", c.name>>
             /\ lines[2] = <<"       Expected: ", c.expected>>
             /\ lines[3] = <<"       Actual:   ", c.actual>>
             /\ (n = 4 => lines[4] = <<"       Details:  ", c.details>>)
             /\ BlocksInOrder(SubSeq(lines, n + 1, Len(lines)), Tail(cs))

\* The lines between the header (two lines) and the footer (two lines).
BodyOf(lines) == SubSeq(lines, 3, Len(lines) - 2)

\* C6: add appends the check at the end of checks and leaves every earlier
\* entry as it was, and summary() renders one block per check in that order.
C6_AppendOnlyAndSummaryInOrder ==
    /\ [][\A r \in ResultIds :
            (call'.op = "add" /\ call'.self = r /\ <<heap, call>> # <<heap', call'>>)
               => /\ checksRef'[r] = checksRef[r]
                  /\ heap'[checksRef[r]] = Append(heap[checksRef[r]], call'.arg)]_vars
    /\ [](call.op = "summary"
            => /\ Len(ReportLines(ret)) >= 4
               /\ BlocksInOrder(BodyOf(ReportLines(ret)), checks(call.self)))

C6_Witness ==
    /\ call.op = "summary"
    /\ Len(checks(call.self)) = 2
    /\ checks(call.self)[1].details = "d" /\ ~checks(call.self)[1].passed
    /\ checks(call.self)[2].details = "" /\ checks(call.self)[2].passed

IsVerdictLine(line) ==
    \/ line = SuccessFooter
    \/ \E i \in 1..Len(line) : line[i] = " checks failed. "

\* C7: summary() ends with exactly one verdict line: the success footer iff
\* all checks passed, otherwise "<failed>/<total> checks failed" with failed
\* the number of checks with passed = false and total = len(checks).
C7_SummaryEndsWithVerdict ==
    call.op = "summary" =>
        LET lines == ReportLines(ret)
            cs == checks(call.self)
            last == lines[Len(lines)]
            failed == Cardinality(FailedAt(cs))
        IN  /\ Cardinality({i \in 1..Len(lines) : IsVerdictLine(lines[i])}) = 1
            /\ IsVerdictLine(last)
            /\ (last = SuccessFooter) <=> (FailedAt(cs) = {})
            /\ FailedAt(cs) # {} =>
                  /\ last = IntStr(failed) \o <<"/">> \o IntStr(Len(cs))
                            \o <<" checks failed. ",
                                 "Check download or wait for completion.">>
                  /\ failed >= 1 /\ failed <= Len(cs)

C7_Witness ==
    /\ call.op = "summary"
    /\ Len(checks(call.self)) = 2
    /\ FailedAt(checks(call.self)) = {2}

\* C10: a ValidationResult constructed without a checks argument starts with
\* an empty checks list that no other instance holds, and add on one instance
\* leaves checks, all_passed, passed_count and failed_count of every other
\* instance unchanged.
C10_InstancesShareNoState ==
    [][\A r \in ResultIds :
          /\ (checksRef[r] = NoRef /\ checksRef'[r] # NoRef)
                => /\ heap'[checksRef'[r]] = <<>>
                   /\ \A o \in ResultIds \ {r} : checksRef'[o] # checksRef'[r]
          /\ (call'.op = "add" /\ call'.self = r /\ <<heap, call>> # <<heap', call'>>)
                => \A o \in Constructed \ {r} :
                      /\ heap'[checksRef'[o]] = heap[checksRef[o]]
                      /\ all_passed(heap'[checksRef'[o]]) = all_passed(heap[checksRef[o]])
                      /\ passed_count(heap'[checksRef'[o]]) = passed_count(heap[checksRef[o]])
                      /\ failed_count(heap'[checksRef'[o]]) = failed_count(heap[checksRef[o]])]_vars

C10_Witness ==
    /\ Constructed = ResultIds
    /\ call.op = "add"
    /\ Len(checks("r1")) = 2
    /\ Len(checks("r2")) = 1
    /\ checks("r2")[1] # checks("r1")[1]

(***************************************************************************)
(* Properties of file discovery (SpecFind)                                 *)
(***************************************************************************)
\* The entries below search_dir, at any depth, whose name matches pattern.
\* An entry is a file of any kind: rglob yields regular files, symlinks and
\* directories alike.
Matching(pattern) ==
    {p \in RelPaths : Exists(p) /\ Match(pattern, PathName(p))}

IsAbsolute(path) == path # <<>> /\ Head(path) = Slash

\* Where entry p really is: the target of a symlink, else its place below
\* the working directory.
Location(p) == IF fs[p] = "link" THEN LinkTarget ELSE Cwd \o SearchDir \o p

FindReturned(op) == call.op = op /\ call.outcome = "returned"

\* C3: find_single_nifti returns the resolved absolute path of the match iff
\* search_dir is a directory and exactly one entry below it matches; it
\* returns None when search_dir is missing or no directory, when nothing
\* matches and when two or more match.
C3_SingleMatchOrNone ==
    FindReturned("find_single_nifti") =>
        LET M == Matching(call.arg)
        IN  IF rootKind = "dir" /\ Cardinality(M) = 1
            THEN /\ ret # None
                 /\ IsAbsolute(ret)
                 /\ \A p \in M : ret = Location(p)
            ELSE ret = None

C3_Witness ==
    /\ FindReturned("find_single_nifti")
    /\ rootKind = "dir"
    /\ call.arg = <<42, 98>>
    /\ Cardinality(Matching(<<42>>)) = 3
    /\ Matching(call.arg) = {<<<<97>>, <<98>>>>}
    /\ ret = Cwd \o SearchDir \o <<<<97>>, <<98>>>>

\* The names in increasing order.
SortedNames ==
    CHOOSE s \in ScanOrders : \A i \in 1..(Len(s) - 1) : StrLess(s[i], s[i + 1])

NamedIn(M, n) == {p \in M : PathName(p) = n}

\* How many of seq[lo..hi] equal q.
Occurrences(seq, lo, hi, q) == Cardinality({i \in lo..hi : seq[i] = q})

\* seq[lo..hi] holds the locations of the entries of S, each entry once.
HoldsEachOnce(seq, lo, hi, S) ==
    /\ hi - lo + 1 = Cardinality(S)
    /\ \A i \in lo..hi : \E p \in S : seq[i] = Location(p)
    /\ \A p \in S :
          Occurrences(seq, lo, hi, Location(p))
             = Cardinality({q \in S : Location(q) = Location(p)})

\* seq is the entries of M as resolved paths, grouped by name, the names in
\* increasing order.
RECURSIVE InNameOrder(_, _, _, _)
InNameOrder(seq, from, names, M) ==
    IF names = <<>> THEN from = Len(seq) + 1
    ELSE LET k == Cardinality(NamedIn(M, Head(names)))
         IN  /\ from + k - 1 <= Len(seq)
             /\ HoldsEachOnce(seq, from, from + k - 1, NamedIn(M, Head(names)))
             /\ InNameOrder(seq, from + k, Tail(names), M)

\* C4: find_all_niftis returns every entry below search_dir that matches,
\* each once and as its resolved absolute path, in non-decreasing order of
\* the entries' names; the empty list when nothing matches or search_dir is
\* missing or no directory.
C4_AllMatchesSortedByName ==
    FindReturned("find_all_niftis") =>
        IF rootKind # "dir" THEN ret = <<>>
        ELSE /\ Len(ret) = Cardinality(Matching(call.arg))
             /\ \A i \in 1..Len(ret) : IsAbsolute(ret[i])
             /\ InNameOrder(ret, 1, SortedNames, Matching(call.arg))

C4_Witness ==
    /\ FindReturned("find_all_niftis")
    /\ call.arg = <<42>>
    /\ fs[<<<<98>>>>] = "file"
    /\ fs[<<<<97, 98>>>>] = "dir"
    /\ fs[<<<<97, 98>>, <<97>>>>] = "file"
    /\ Len(ret) = 3
    /\ ret[1] = Cwd \o SearchDir \o <<<<97, 98>>, <<97>>>>
    /\ ret[3] = Cwd \o SearchDir \o <<<<98>>>>

\* C9: the sequence find_all_niftis returns depends only on the tree and the
\* pattern: a run over the same tree with any other listing order returns
\* the same sequence.
C9_ResultIndependentOfTraversal ==
    FindReturned("find_all_niftis") =>
        \A order \in ScanOrders : find_all_niftis(call.arg, order) = ret

(***************************************************************************)
(* Properties of validate_dataset (SpecValidate)                           *)
(***************************************************************************)
HasChecksum == config.archive # "none"

\* C5: the result validate_dataset returns holds one check_count entry per
\* required-file entry of the config, in the config's order, then the
\* check_zero_byte_files entry, then the verify_md5 entry when the config
\* carries an archive checksum, whichever of these checks failed.
C5_EveryConfiguredCheckRuns ==
    pc.at = "done" =>
        LET n == Len(config.required)
        IN  /\ ret = checks(Run)
            /\ Len(ret) = n + 1 + (IF HasChecksum THEN 1 ELSE 0)
            /\ \A i \in 1..n :
                  /\ ret[i].name = <<"check_count", config.required[i].name>>
                  /\ ret[i].expected = IntStr(config.required[i].expected_count)
                  /\ ret[i].actual =
                        IntStr(IF rootKind = "dir"
                               THEN Cardinality(Matching(config.required[i].pattern))
                               ELSE 0)
            /\ ret[n + 1].name = <<"check_zero_byte_files">>
            /\ HasChecksum => ret[n + 2].name = <<"verify_md5">>

C5_Witness ==
    /\ pc.at = "done"
    /\ Len(config.required) = 2
    /\ config.archive = "mismatch"
    /\ Len(ret) = 4
    /\ ~ret[1].passed /\ ret[2].passed /\ ~ret[3].passed /\ ~ret[4].passed

=============================================================================
